---------------------------- MODULE Spec2Model ----------------------------
(***************************************************************************)
(* sidconv.py: C64 BASIC -> RC2014 MS BASIC converter of SID POKEs.        *)
(*                                                                         *)
(* A Python str is a sequence of one-character strings; the escape         *)
(* character \x1b is the element "ESC".  Optional[T] is <<>> (None) or     *)
(* <<x>>; an Optional[str] that is None is the value None below.           *)
(***************************************************************************)
EXTENDS Integers, Sequences, FiniteSets, TLC

VARIABLES lines, args, pc, idx, base_vars, first_line_num, parsed_lines,
          header_ln, output_lines, outfile

vars == <<lines, args, pc, idx, base_vars, first_line_num, parsed_lines,
          header_ln, output_lines, outfile>>

(***************************************************************************)
(* Characters and the str methods the program uses                         *)
(***************************************************************************)
DigitChars == <<"0","1","2","3","4","5","6","7","8","9">>

UpperChars == <<"A","B","C","D","E","F","G","H","I","J","K","L","M","N","O","P","Q","R","S","T","U","V","W","X","Y","Z">>

LowerChars == <<"a","b","c","d","e","f","g","h","i","j","k","l","m","n","o","p","q","r","s","t","u","v","w","x","y","z">>

\* \s of re and the whitespace of str.strip(), on the characters of the model
IsSpace(c) == c \in {" ", "\t"}

\* \d of re
IsDigit(c) == \E i \in 1..10 : DigitChars[i] = c

\* [A-Z] under re.IGNORECASE
IsLetter(c) == \E i \in 1..26 : UpperChars[i] = c \/ LowerChars[i] = c

\* [A-Z0-9] under re.IGNORECASE
IsAlnum(c) == IsLetter(c) \/ IsDigit(c)

UpperChar(c) ==
    IF \E i \in 1..26 : LowerChars[i] = c
    THEN UpperChars[CHOOSE i \in 1..26 : LowerChars[i] = c]
    ELSE c

\* str.upper()
upper(s) == [i \in 1..Len(s) |-> UpperChar(s[i])]

\* s[i], or "" past either end of s
At(s, i) == IF i \in 1..Len(s) THEN s[i] ELSE ""

\* s[i-1:] of Python (1-based i)
From(s, i) == IF i > Len(s) THEN <<>> ELSE SubSeq(s, i, Len(s))

\* the index after the longest run of whitespace that starts at i (greedy \s*)
SkipSp(s, i) ==
    IF \A j \in i..Len(s) : IsSpace(s[j]) THEN Len(s) + 1
    ELSE CHOOSE j \in i..Len(s) : ~IsSpace(s[j]) /\ \A k \in i..(j-1) : IsSpace(s[k])

\* the index after the longest run of digits that starts at i (greedy \d*)
SkipDigits(s, i) ==
    IF \A j \in i..Len(s) : IsDigit(s[j]) THEN Len(s) + 1
    ELSE CHOOSE j \in i..Len(s) : ~IsDigit(s[j]) /\ \A k \in i..(j-1) : IsDigit(s[k])

\* str.rstrip()
rstrip(s) ==
    IF \A j \in 1..Len(s) : IsSpace(s[j]) THEN <<>>
    ELSE SubSeq(s, 1, CHOOSE j \in 1..Len(s) :
                        ~IsSpace(s[j]) /\ \A k \in (j+1)..Len(s) : IsSpace(s[k]))

\* str.strip()
strip(s) == rstrip(From(s, SkipSp(s, 1)))

\* s.startswith(p) at index i, letters compared as re.IGNORECASE does
HasAt(s, i, p) ==
    /\ i + Len(p) - 1 <= Len(s)
    /\ \A k \in 1..Len(p) : UpperChar(s[i + k - 1]) = UpperChar(p[k])

\* s.startswith(p), exact
startswith(s, p) ==
    /\ Len(p) <= Len(s)
    /\ \A k \in 1..Len(p) : s[k] = p[k]

RECURSIVE join(_, _)
\* sep.join(parts)
join(sep, parts) ==
    IF parts = <<>> THEN <<>>
    ELSE IF Len(parts) = 1 THEN parts[1]
    ELSE parts[1] \o sep \o join(sep, Tail(parts))

RECURSIVE Flatten(_)
\* the concatenation of a list of lists
Flatten(ls) == IF ls = <<>> THEN <<>> ELSE Head(ls) \o Flatten(Tail(ls))

DigitVal(c) == (CHOOSE i \in 1..10 : DigitChars[i] = c) - 1

RECURSIVE DigitsToNat(_)
\* int(ds) of a non-empty run of digits
DigitsToNat(ds) ==
    IF ds = <<>> THEN 0
    ELSE 10 * DigitsToNat(SubSeq(ds, 1, Len(ds) - 1)) + DigitVal(ds[Len(ds)])

RECURSIVE NatToStr(_)
NatToStr(n) ==
    IF n < 10 THEN <<DigitChars[n + 1]>>
    ELSE NatToStr(n \div 10) \o <<DigitChars[(n % 10) + 1]>>

\* f"{n}" of an int
IntToStr(n) == IF n < 0 THEN <<"-">> \o NatToStr(-n) ELSE NatToStr(n)

\* int(s, 10): <<>> where Python raises ValueError.  Python strips whitespace,
\* takes one optional sign, then digits in which single underscores may stand
\* between two digits.
int10(s) ==
    LET t    == strip(s)
        neg  == At(t, 1) = "-"
        body == IF At(t, 1) \in {"+", "-"} THEN From(t, 2) ELSE t
        n    == Len(body)
        wellFormed ==
            /\ n >= 1
            /\ \A i \in 1..n : IsDigit(body[i]) \/ body[i] = "_"
            /\ IsDigit(body[1]) /\ IsDigit(body[n])
            /\ \A i \in 1..(n-1) : ~(body[i] = "_" /\ body[i+1] = "_")
        ds   == SelectSeq(body, IsDigit)
    IN  IF ~wellFormed THEN <<>>
        ELSE <<IF neg THEN 0 - DigitsToNat(ds) ELSE DigitsToNat(ds)>>

\* the None of an Optional[str]
None == <<"None">>

\* truth value of an Optional[str]: neither None nor the empty string
Truthy(x) == x # None /\ x # <<>>

(***************************************************************************)
(* The regular expressions, each as the match re.match finds first         *)
(***************************************************************************)
\* LINE_NUM_RE = ^\s*(\d+)\s*(.*)$ : <<>> or <<group 1, group 2>>.  Every
\* quantifier is greedy and what follows it accepts any rest, so the first
\* match takes the longest runs.
LINE_NUM_RE(raw) ==
    LET i == SkipSp(raw, 1)
        j == SkipDigits(raw, i)
    IN  IF j = i THEN <<>>
        ELSE <<SubSeq(raw, i, j - 1), From(raw, SkipSp(raw, j))>>

\* \s*=\s*54272\s*$ from index i
AssignTail(s, i) ==
    LET j == SkipSp(s, i)
        k == SkipSp(s, j + 1)
    IN  /\ At(s, j) = "="
        /\ HasAt(s, k, <<"5","4","2","7","2">>)
        /\ SkipSp(s, k + 5) = Len(s) + 1

\* ([A-Z][A-Z0-9]?)\s*=\s*54272\s*$ from index i: the two-character name is
\* tried first
AssignName(s, i) ==
    IF ~IsLetter(At(s, i)) THEN <<>>
    ELSE IF IsAlnum(At(s, i + 1)) /\ AssignTail(s, i + 2) THEN <<SubSeq(s, i, i + 1)>>
    ELSE IF AssignTail(s, i + 1) THEN <<SubSeq(s, i, i)>>
    ELSE <<>>

\* ASSIGN_BASE_RE = ^\s*(?:LET\s+)?([A-Z][A-Z0-9]?)\s*=\s*54272\s*$ under
\* IGNORECASE: <<>> or <<group 1>>.  The branch with LET is tried first.
ASSIGN_BASE_RE(s) ==
    LET i == SkipSp(s, 1)
        withLet == IF HasAt(s, i, <<"L","E","T">>) /\ IsSpace(At(s, i + 3))
                   THEN AssignName(s, SkipSp(s, i + 3))
                   ELSE <<>>
    IN  IF withLet # <<>> THEN withLet ELSE AssignName(s, i)

\* FOR_RE = ^\s*FOR\s+([A-Z][A-Z0-9]?)\s*=\s*1\s+TO\s*(\d+)\s*$ : the part
\* after the name, from index i: <<>> or <<group 2>>
ForTail(s, i) ==
    LET j == SkipSp(s, i)
        k == SkipSp(s, j + 1)
        m == SkipSp(s, k + 1)
        n == SkipSp(s, m + 2)
        e == SkipDigits(s, n)
    IN  IF /\ At(s, j) = "="
           /\ At(s, k) = "1"
           /\ IsSpace(At(s, k + 1))
           /\ HasAt(s, m, <<"T","O">>)
           /\ e > n
           /\ SkipSp(s, e) = Len(s) + 1
        THEN <<SubSeq(s, n, e - 1)>>
        ELSE <<>>

\* FOR_RE under IGNORECASE: <<>> or <<group 1, group 2>>
FOR_RE(s) ==
    LET i == SkipSp(s, 1)
        v == SkipSp(s, i + 3)
    IN  IF ~(HasAt(s, i, <<"F","O","R">>) /\ IsSpace(At(s, i + 3)) /\ IsLetter(At(s, v)))
        THEN <<>>
        ELSE IF IsAlnum(At(s, v + 1)) /\ ForTail(s, v + 2) # <<>>
        THEN <<SubSeq(s, v, v + 1), ForTail(s, v + 2)[1]>>
        ELSE IF ForTail(s, v + 1) # <<>>
        THEN <<SubSeq(s, v, v), ForTail(s, v + 1)[1]>>
        ELSE <<>>

\* \$?\s*$ from index i
GetTail(s, i) ==
    \/ At(s, i) = "$" /\ SkipSp(s, i + 1) = Len(s) + 1
    \/ SkipSp(s, i) = Len(s) + 1

\* ^\s*GET\s+([A-Z][A-Z0-9]?)\$?\s*$ under IGNORECASE: <<>> or <<group 1>>
GET_RE(s) ==
    LET i == SkipSp(s, 1)
        v == SkipSp(s, i + 3)
    IN  IF ~(HasAt(s, i, <<"G","E","T">>) /\ IsSpace(At(s, i + 3)) /\ IsLetter(At(s, v)))
        THEN <<>>
        ELSE IF IsAlnum(At(s, v + 1)) /\ GetTail(s, v + 2) THEN <<SubSeq(s, v, v + 1)>>
        ELSE IF GetTail(s, v + 1) THEN <<SubSeq(s, v, v)>>
        ELSE <<>>

\* \s*,\s*(.+?)\s*$ from index i: a comma after optional whitespace, and at
\* least one character after the comma
PokeTail(s, i) == At(s, SkipSp(s, i)) = "," /\ SkipSp(s, i) < Len(s)

\* POKE_STMT_RE = ^\s*POKE\s+(.+?)\s*,\s*(.+?)\s*$ under IGNORECASE: <<>> or
\* <<group 1, group 2>>.  \s+ is greedy (the longest run first, then shorter),
\* group 1 is lazy (the shortest first); group 2 is the shortest text after the
\* comma's whitespace that leaves only whitespace, or the last character when
\* only whitespace follows the comma.
POKE_STMT_RE(s) ==
    LET i   == SkipSp(s, 1)
        sp  == SkipSp(s, i + 4)
        \* the (start, end) pairs of group 1 that let the rest match
        cand == {pe \in ((i + 5)..sp) \X ((i + 5)..Len(s)) :
                    pe[1] <= pe[2] /\ PokeTail(s, pe[2] + 1)}
        best == CHOOSE pe \in cand :
                    \A qe \in cand : \/ pe[1] > qe[1]
                                     \/ pe[1] = qe[1] /\ pe[2] <= qe[2]
        c    == SkipSp(s, best[2] + 1)
        rest == From(s, c + 1)
        g2   == IF strip(rest) # <<>> THEN strip(rest) ELSE <<rest[Len(rest)]>>
    IN  IF ~(HasAt(s, i, <<"P","O","K","E">>) /\ IsSpace(At(s, i + 4))) \/ cand = {} THEN <<>>
        ELSE <<SubSeq(s, best[1], best[2]), g2>>

\* ^([A-Z][A-Z0-9]?)(\+(.+))?$ under IGNORECASE, of rewrite_poke: <<>> or
\* <<group 1, group 3>>, group 3 being None when the optional part is absent
VarTail(a, i) ==
    IF At(a, i) = "+" /\ i < Len(a) THEN <<From(a, i + 1)>>
    ELSE IF i = Len(a) + 1 THEN <<None>>
    ELSE <<>>

VAR_BASE_RE(a) ==
    IF ~IsLetter(At(a, 1)) THEN <<>>
    ELSE IF IsAlnum(At(a, 2)) /\ VarTail(a, 3) # <<>>
    THEN <<SubSeq(a, 1, 2), VarTail(a, 3)[1]>>
    ELSE IF VarTail(a, 2) # <<>>
    THEN <<SubSeq(a, 1, 1), VarTail(a, 2)[1]>>
    ELSE <<>>

\* CHR_CALL_RE = CHR\$\(\s*(\d+)\s*\) under IGNORECASE, matched at index i:
\* <<>> or <<group 1, the index after the match>>
CHR_CALL_RE(s, i) ==
    LET d == SkipSp(s, i + 5)
        e == SkipDigits(s, d)
        p == SkipSp(s, e)
    IN  IF HasAt(s, i, <<"C","H","R","$","(">>) /\ e > d /\ At(s, p) = ")"
        THEN <<SubSeq(s, d, e - 1), p + 1>>
        ELSE <<>>

(***************************************************************************)
(* Program constants                                                       *)
(***************************************************************************)
DEFAULT_REG == 212

DEFAULT_DAT == 213

ANSI_SEQ == "ESC"

\* Minimal PETSCII -> ANSI mappings
ANSI_CHR_MAP ==
    (147 :> <<"ESC","[","2","J","ESC","[","H">>) @@ (19 :> <<"ESC","[","H">>) @@ (17 :> <<"ESC","[","B">>) @@ (145 :> <<"ESC","[","A">>) @@
    (157 :> <<"ESC","[","D">>) @@ (29 :> <<"ESC","[","C">>) @@ (5 :> <<"ESC","[","3","7","m">>) @@ (28 :> <<"ESC","[","3","1","m">>) @@
    (30 :> <<"ESC","[","3","2","m">>) @@ (31 :> <<"ESC","[","3","4","m">>) @@ (144 :> <<"ESC","[","3","0","m">>) @@ (18 :> <<"ESC","[","0","m">>)

(***************************************************************************)
(* The functions of sidconv.py                                             *)
(***************************************************************************)
\* split_colon_statements flushing the tail also when it is empty
split_colon_statements_keep_tail(s) ==
    LET isColon(i) == s[i] = ":"
        n     == Cardinality({i \in 1..Len(s) : isColon(i)})
        cs(k) == IF k = 0 THEN 0
                 ELSE CHOOSE i \in 1..Len(s) :
                        isColon(i) /\ Cardinality({j \in 1..i : isColon(j)}) = k
        parts == [k \in 1..n |->
                    strip(IF cs(k-1) + 1 > cs(k) - 1 THEN <<>>
                          ELSE SubSeq(s, cs(k-1) + 1, cs(k) - 1))]
        tail  == strip(From(s, cs(n) + 1))
    IN  Append(parts, tail)

\* split_colon_statements: the scan flushes strip(buf) at every ':' and, at the
\* end, flushes the tail only if it is not empty after strip().  With the
\* colons of s at cs[1] < ... < cs[n], the k-th flush is the text between
\* colon k-1 and colon k, and the tail is the text after the last colon.
split_colon_statements(s) ==
    LET isColon(i) == s[i] = ":"
        n     == Cardinality({i \in 1..Len(s) : isColon(i)})
        \* the index of the k-th colon; 0 for k = 0
        cs(k) == IF k = 0 THEN 0
                 ELSE CHOOSE i \in 1..Len(s) :
                        isColon(i) /\ Cardinality({j \in 1..i : isColon(j)}) = k
        parts == [k \in 1..n |->
                    strip(IF cs(k-1) + 1 > cs(k) - 1 THEN <<>>
                          ELSE SubSeq(s, cs(k-1) + 1, cs(k) - 1))]
        tail  == strip(From(s, cs(n) + 1))
    IN  IF tail # <<>> THEN Append(parts, tail) ELSE parts

\* re.sub(r"\s+", "", addr_expr)
RemoveSpaces(s) == SelectSeq(s, LAMBDA c : ~IsSpace(c))

\* offset_of with the alias compared as written, not upper-cased
offset_of_case_sensitive(arg_addr, bvars) ==
    LET addr_expr_no_sp == RemoveSpaces(strip(arg_addr))
        m == VAR_BASE_RE(addr_expr_no_sp)
    IN  IF startswith(addr_expr_no_sp, <<"5","4","2","7","2","+">>) THEN From(addr_expr_no_sp, 7)
        ELSE IF addr_expr_no_sp = <<"5","4","2","7","2">> THEN <<"0">>
        ELSE IF m # <<>> /\ m[1] \in bvars
             THEN (IF m[2] # None THEN m[2] ELSE <<"0">>)
        ELSE None

\* offset_of taking every variable name for an alias of the base address
offset_of_any_var(arg_addr, bvars) ==
    LET addr_expr_no_sp == RemoveSpaces(strip(arg_addr))
        m == VAR_BASE_RE(addr_expr_no_sp)
    IN  IF startswith(addr_expr_no_sp, <<"5","4","2","7","2","+">>) THEN From(addr_expr_no_sp, 7)
        ELSE IF addr_expr_no_sp = <<"5","4","2","7","2">> THEN <<"0">>
        ELSE IF m # <<>>
             THEN (IF m[2] # None THEN m[2] ELSE <<"0">>)
        ELSE None

\* the offset expression rewrite_poke finds in the address, or None
offset_of(arg_addr, bvars) ==
    LET addr_expr_no_sp == RemoveSpaces(strip(arg_addr))
        m == VAR_BASE_RE(addr_expr_no_sp)
    IN  IF startswith(addr_expr_no_sp, <<"5","4","2","7","2","+">>) THEN From(addr_expr_no_sp, 7)
        ELSE IF addr_expr_no_sp = <<"5","4","2","7","2">> THEN <<"0">>
        ELSE IF m # <<>> /\ upper(m[1]) \in bvars
             THEN (IF m[2] # None THEN m[2] ELSE <<"0">>)
        ELSE None

\* range_rem taking register 24 for out of range
range_rem_from_24(offset_expr, warn_out_of_range) ==
    LET off_eval == int10(offset_expr)
    IN  IF warn_out_of_range /\ off_eval # <<>> /\ (off_eval[1] < 0 \/ off_eval[1] >= 24)
        THEN <<" ",":"," ","R","E","M"," ","W","A","R","N",":"," ","S","I","D"," ","r","e","g"," ">> \o IntToStr(off_eval[1]) \o <<" ","o","u","t"," ","o","f"," ","0","-","2","4">>
        ELSE <<>>

\* the REM text rewrite_poke appends to the data statement
range_rem(offset_expr, warn_out_of_range) ==
    LET off_eval == int10(offset_expr)
    IN  IF warn_out_of_range /\ off_eval # <<>> /\ (off_eval[1] < 0 \/ off_eval[1] > 24)
        THEN <<" ",":"," ","R","E","M"," ","W","A","R","N",":"," ","S","I","D"," ","r","e","g"," ">> \o IntToStr(off_eval[1]) \o <<" ","o","u","t"," ","o","f"," ","0","-","2","4">>
        ELSE <<>>

\* (out_reg_stmt, out_dat_stmt), or (None, None) if not a SID poke
rewrite_poke(arg_addr, arg_val, bvars, warn_out_of_range) ==
    LET val_expr    == strip(arg_val)
        offset_expr == offset_of(arg_addr, bvars)
    IN  IF offset_expr = None THEN <<None, None>>
        ELSE <<<<"O","U","T"," ","R","E","G",",">> \o offset_expr,
               <<"O","U","T"," ","D","A","T",",">> \o val_expr \o range_rem(offset_expr, warn_out_of_range)>>

\* repl of map_chr_calls_to_profile: the replacement of one CHR$(n) call
chr_repl(digits, whole) ==
    LET n == DigitsToNat(digits)
    IN  IF n \in DOMAIN ANSI_CHR_MAP THEN <<"\"">> \o ANSI_CHR_MAP[n] \o <<"\"">> ELSE whole

RECURSIVE chr_sub(_, _)
\* CHR_CALL_RE.sub(repl, stmt) from index i: leftmost matches, not overlapping
chr_sub(s, i) ==
    IF i > Len(s) THEN <<>>
    ELSE LET m == CHR_CALL_RE(s, i)
         IN  IF m # <<>>
             THEN chr_repl(m[1], SubSeq(s, i, m[2] - 1)) \o chr_sub(s, m[2])
             ELSE <<s[i]>> \o chr_sub(s, i + 1)

map_chr_calls_to_profile(stmt, screen_profile) ==
    IF screen_profile # "ansi" THEN stmt ELSE chr_sub(stmt, 1)

\* one round of the FOR scaling loop of process_line_body: the statement
\* appended to scaled_stmts for stmts[i]
scale_stmt(stmt, scale_for, scale_for_vars) ==
    LET s  == strip(stmt)
        fm == FOR_RE(s)
    IN  IF scale_for # <<>> /\ scale_for[1] > 1 /\ fm # <<>> /\ upper(fm[1]) \in scale_for_vars
        THEN <<"F","O","R"," ">> \o fm[1] \o <<"=","1"," ","T","O"," ">> \o IntToStr(DigitsToNat(fm[2]) * scale_for[1])
        ELSE s

\* rewrite_stmt appending nothing for an empty statement
rewrite_stmt_drop_empty(s, bvars, warn_out_of_range, screen_profile, map_get_to_inkey) ==
    LET mg  == GET_RE(s)
        pm  == POKE_STMT_RE(s)
        out == rewrite_poke(pm[1], pm[2], bvars, warn_out_of_range)
    IN  IF s = <<>> THEN <<>>
        ELSE IF map_get_to_inkey /\ mg # <<>> THEN <<upper(mg[1]) \o <<"$","=","I","N","K","E","Y","$">>>>
        ELSE IF pm # <<>> /\ Truthy(out[1]) /\ Truthy(out[2]) THEN <<out[1], out[2]>>
        ELSE <<map_chr_calls_to_profile(s, screen_profile)>>

\* one round of the second loop of process_line_body: what it appends to
\* out_parts for the statement s
rewrite_stmt(s, bvars, warn_out_of_range, screen_profile, map_get_to_inkey) ==
    LET mg  == GET_RE(s)
        pm  == POKE_STMT_RE(s)
        out == rewrite_poke(pm[1], pm[2], bvars, warn_out_of_range)
    IN  IF map_get_to_inkey /\ mg # <<>> THEN <<upper(mg[1]) \o <<"$","=","I","N","K","E","Y","$">>>>
        ELSE IF pm # <<>> /\ Truthy(out[1]) /\ Truthy(out[2]) THEN <<out[1], out[2]>>
        ELSE <<map_chr_calls_to_profile(s, screen_profile)>>

process_line_body(body, bvars, warn_out_of_range, scale_for, scale_for_vars, screen_profile, map_get_to_inkey) ==
    LET stmts        == split_colon_statements(body)
        scaled_stmts == [i \in 1..Len(stmts) |->
                            scale_stmt(stmts[i], scale_for, scale_for_vars)]
        out_parts    == Flatten([i \in 1..Len(scaled_stmts) |->
                            rewrite_stmt(scaled_stmts[i], bvars, warn_out_of_range,
                                         screen_profile, map_get_to_inkey)])
    IN  join(<<":">>, out_parts)

\* {v.strip().upper() for v in args.scale_for_vars.split(',') if v.strip()}
RECURSIVE split_comma(_, _, _)
split_comma(s, i, buf) ==
    IF i > Len(s) THEN <<buf>>
    ELSE IF s[i] = "," THEN <<buf>> \o split_comma(s, i + 1, <<>>)
    ELSE split_comma(s, i + 1, Append(buf, s[i]))

parse_scale_for_vars(text) ==
    LET vs == split_comma(text, 1, <<>>)
    IN  {upper(strip(vs[i])) : i \in {k \in 1..Len(vs) : strip(vs[k]) # <<>>}}

\* the base assignments of one line body (first pass)
base_assigns(body) ==
    LET stmts == split_colon_statements(body)
    IN  {upper(ASSIGN_BASE_RE(stmts[i])[1]) :
            i \in {k \in 1..Len(stmts) : ASSIGN_BASE_RE(stmts[k]) # <<>>}}

\* rewrite_base_assigns writing the name as the program spells it
rewrite_base_assigns_as_written(new_body, bvars) ==
    LET stmts == split_colon_statements(new_body)
        hit(s) == ASSIGN_BASE_RE(s) # <<>> /\ upper(ASSIGN_BASE_RE(s)[1]) \in bvars
        replaced == \E i \in 1..Len(stmts) : hit(stmts[i])
        stmts2 == [i \in 1..Len(stmts) |->
                     IF hit(stmts[i]) THEN ASSIGN_BASE_RE(stmts[i])[1] \o <<"=","0">>
                     ELSE stmts[i]]
    IN  IF replaced THEN join(<<":">>, stmts2) ELSE new_body

\* the rewrite of "<base>=54272" into "<BASE>=0" on a rewritten line body
rewrite_base_assigns(new_body, bvars) ==
    LET stmts == split_colon_statements(new_body)
        hit(s) == ASSIGN_BASE_RE(s) # <<>> /\ upper(ASSIGN_BASE_RE(s)[1]) \in bvars
        replaced == \E i \in 1..Len(stmts) : hit(stmts[i])
        stmts2 == [i \in 1..Len(stmts) |->
                     IF hit(stmts[i]) THEN upper(ASSIGN_BASE_RE(stmts[i])[1]) \o <<"=","0">>
                     ELSE stmts[i]]
    IN  IF replaced THEN join(<<":">>, stmts2) ELSE new_body

\* the output line of one numbered line (second pass)
numbered_line(ln, new_body) ==
    IF strip(new_body) = <<>> THEN IntToStr(ln) ELSE IntToStr(ln) \o <<" ">> \o new_body

header_text(a) == <<"B","=","0",":","R","E","G","=">> \o IntToStr(a.reg) \o <<":","D","A","T","=">> \o IntToStr(a.dat)

(***************************************************************************)
(* main() as a state machine                                               *)
(***************************************************************************)
\* the state after the input file is read: line 204 to 213
InitOn(Programs, Args) ==
    /\ lines \in Programs
    /\ args \in Args
    /\ pc = "pass1"
    /\ idx = 1
    /\ base_vars = {}
    /\ first_line_num = <<>>
    /\ parsed_lines = <<>>
    /\ header_ln = <<>>
    /\ output_lines = <<>>
    /\ outfile = None

\* one round of the first pass: for raw in lines
Pass1Line ==
    /\ pc = "pass1"
    /\ idx <= Len(lines)
    /\ LET raw  == lines[idx]
           m    == LINE_NUM_RE(raw)
           ln   == DigitsToNat(m[1])
           body == strip(m[2])
       IN  IF m # <<>>
           THEN /\ first_line_num' = IF first_line_num = <<>> THEN <<ln>> ELSE first_line_num
                /\ base_vars' = base_vars \cup base_assigns(body)
                /\ parsed_lines' = Append(parsed_lines, <<<<ln>>, body>>)
           ELSE /\ parsed_lines' = Append(parsed_lines, <<<<>>, rstrip(raw)>>)
                /\ UNCHANGED <<first_line_num, base_vars>>
    /\ idx' = idx + 1
    /\ UNCHANGED <<lines, args, pc, header_ln, output_lines, outfile>>

\* Header with the number n - 5 also where it is negative
HeaderNoFloor ==
    /\ pc = "pass1"
    /\ idx > Len(lines)
    /\ header_ln' = IF first_line_num # <<>> THEN <<first_line_num[1] - 5>> ELSE <<>>
    /\ output_lines' = IF header_ln' # <<>>
                       THEN <<IntToStr(header_ln'[1]) \o <<" ">> \o header_text(args)>>
                       ELSE <<<<"5"," ">> \o header_text(args)>>
    /\ pc' = "pass2"
    /\ idx' = 1
    /\ UNCHANGED <<lines, args, base_vars, first_line_num, parsed_lines, outfile>>

\* the header: its number, its text, and its insertion as the first output line
Header ==
    /\ pc = "pass1"
    /\ idx > Len(lines)
    /\ header_ln' = IF first_line_num # <<>>
                    THEN <<IF first_line_num[1] - 5 > 0 THEN first_line_num[1] - 5 ELSE 0>>
                    ELSE <<>>
    /\ output_lines' = IF header_ln' # <<>>
                       THEN <<IntToStr(header_ln'[1]) \o <<" ">> \o header_text(args)>>
                       ELSE <<<<"5"," ">> \o header_text(args)>>
    /\ pc' = "pass2"
    /\ idx' = 1
    /\ UNCHANGED <<lines, args, base_vars, first_line_num, parsed_lines, outfile>>

\* Pass2Line of a translator with one pass: the aliases are those of the
\* lines up to the one it rewrites
Pass2LineAliasesSoFar ==
    /\ pc = "pass2"
    /\ idx <= Len(parsed_lines)
    /\ LET ln   == parsed_lines[idx][1]
           body == parsed_lines[idx][2]
           sofar == UNION {base_assigns(parsed_lines[j][2]) :
                             j \in {h \in 1..idx : parsed_lines[h][1] # <<>>}}
           new_body == process_line_body(body, sofar, args.warn_out_of_range,
                          IF args.scale_for > 0 THEN <<args.scale_for>> ELSE <<>>,
                          parse_scale_for_vars(args.scale_for_vars),
                          args.screen_profile, args.map_get_to_inkey)
       IN  output_lines' =
             IF ln = <<>> THEN Append(output_lines, body)
             ELSE Append(output_lines,
                         numbered_line(ln[1], rewrite_base_assigns(new_body, sofar)))
    /\ idx' = idx + 1
    /\ UNCHANGED <<lines, args, pc, base_vars, first_line_num, parsed_lines,
                   header_ln, outfile>>

\* one round of the second pass: for ln, body in parsed_lines
Pass2Line ==
    /\ pc = "pass2"
    /\ idx <= Len(parsed_lines)
    /\ LET ln   == parsed_lines[idx][1]
           body == parsed_lines[idx][2]
           new_body == process_line_body(body, base_vars, args.warn_out_of_range,
                          IF args.scale_for > 0 THEN <<args.scale_for>> ELSE <<>>,
                          parse_scale_for_vars(args.scale_for_vars),
                          args.screen_profile, args.map_get_to_inkey)
       IN  output_lines' =
             IF ln = <<>> THEN Append(output_lines, body)
             ELSE Append(output_lines,
                         numbered_line(ln[1], rewrite_base_assigns(new_body, base_vars)))
    /\ idx' = idx + 1
    /\ UNCHANGED <<lines, args, pc, base_vars, first_line_num, parsed_lines,
                   header_ln, outfile>>

\* the output file is written: '\n'.join(output_lines) + '\n'
WriteOutput ==
    /\ pc = "pass2"
    /\ idx > Len(parsed_lines)
    /\ outfile' = join(<<"\n">>, output_lines) \o <<"\n">>
    /\ pc' = "done"
    /\ UNCHANGED <<lines, args, idx, base_vars, first_line_num, parsed_lines,
                   header_ln, output_lines>>

Next == Pass1Line \/ Header \/ Pass2Line \/ WriteOutput

(***************************************************************************)
(* Input programs and command lines                                        *)
(***************************************************************************)
\* the largest number of statements on a generated line
MaxStmts == 2

\* the largest number of lines of a generated program
MaxLines == 2

\* the largest number of tokens of a generated line body
MaxTokens == 4

\* all sequences of 1..n elements of S
SeqsUpTo(S, n) == UNION {[1..k -> S] : k \in 1..n}

\* the command line with no option given (parse_args' defaults), but for
\* --screen-profile, which the specifications set
DefaultArgs ==
    [reg |-> DEFAULT_REG, dat |-> DEFAULT_DAT, warn_out_of_range |-> FALSE,
     scale_for |-> 0, scale_for_vars |-> <<"T",",","W",",","D","E","L","A","Y",",","D">>,
     screen_profile |-> "ansi", map_get_to_inkey |-> FALSE]

\* one-line programs: line number 10 and 1..MaxStmts statements joined by ':'
OneLinePrograms(Stmts) ==
    {<<<<"1","0"," ">> \o join(<<":">>, ss)>> : ss \in SeqsUpTo(Stmts, MaxStmts)}

\* statements around the SID POKE rewrite
PokeStmts ==
    {<<"P","O","K","E"," ","5","4","2","7","2","+","5",",","1","0">>, <<"p","o","k","e"," ","5","4","2","7","2"," ",","," ","1"," ","0">>, <<"P","O","K","E"," ","B","+","3","0",",","1">>, <<"P","O","K","E"," ","b",",","2">>,
     <<"P","O","K","E"," ","S","1"," ","+"," ","X",",","Y">>, <<"P","O","K","E"," ","5","4","2","7","2","+","-","1",",","0">>, <<"P","O","K","E"," ","B","+","2","4",",","3">>, <<"P","O","K","E"," ","5","4","2","7","2","+","2","5",",","4">>,
     <<"P","O","K","E"," ","1","0","2","4",",","C","H","R","$","(","1","4","7",")">>, <<"P","O","K","E"," ","B","B","+","1",",","2">>, <<"P","O","K","E"," ","5","4","2","7","2","+",",","3">>, <<"P","O","K","E"," ","B","+",",","3">>,
     <<"B","=","5","4","2","7","2">>, <<"L","E","T"," ","S","1"," ","="," ","5","4","2","7","2">>, <<"N","E","X","T"," ","T">>, <<>>}

PokeArgs ==
    {[DefaultArgs EXCEPT !.warn_out_of_range = w, !.screen_profile = p,
                         !.map_get_to_inkey = g, !.scale_for = IF g THEN 3 ELSE 0] :
        w \in BOOLEAN, p \in {"ansi", "none"}, g \in BOOLEAN}

InitPoke == InitOn(OneLinePrograms(PokeStmts), PokeArgs)

SpecPoke == InitPoke /\ [][Next]_vars

\* statements around the FOR scaling
ForStmts ==
    {<<"F","O","R"," ","T","=","1"," ","T","O"," ","5","0">>, <<"f","o","r"," ","t"," ","="," ","1"," ","t","o"," ","0","5","0">>, <<"F","O","R"," ","D","E","L","A","Y","=","1"," ","T","O"," ","5">>, <<"F","O","R"," ","X","=","1"," ","T","O"," ","9">>,
     <<"F","O","R"," ","T","=","2"," ","T","O"," ","5","0">>, <<"F","O","R"," ","T","=","1"," ","T","O"," ","5","0"," ","S","T","E","P"," ","2">>, <<"F","O","R"," ","T","=","1"," ","T","O"," ","N">>, <<"F","O","R"," ","W","1","=","1"," ","T","O"," ","7">>,
     <<"N","E","X","T"," ","T">>}

ForArgs ==
    {[DefaultArgs EXCEPT !.scale_for = f, !.scale_for_vars = v] :
        f \in {-2, 0, 1, 3}, v \in {<<"T",",","W",",","D","E","L","A","Y",",","D">>, <<" ","x"," ",","," ","w","1">>, <<"D","E","L","A","Y">>}}

InitFor == InitOn(OneLinePrograms(ForStmts), ForArgs)

SpecFor == InitFor /\ [][Next]_vars

\* line bodies as token sequences: text, whitespace, colons, and statements
\* the key-read and screen rewrites change
BodyTokens == {<<"A">>, <<" ">>, <<":">>, <<"G","E","T"," ","K">>, <<"C","H","R","$","(","5",")">>}

TokenPrograms ==
    {<<<<"1","0"," ">> \o Flatten(ts)>> : ts \in SeqsUpTo(BodyTokens, MaxTokens)}

SplitArgs ==
    {[DefaultArgs EXCEPT !.screen_profile = p, !.map_get_to_inkey = g] :
        p \in {"ansi", "none"}, g \in BOOLEAN}

InitSplit == InitOn(TokenPrograms, SplitArgs)

SpecSplit == InitSplit /\ [][Next]_vars

\* whole programs: 1..MaxLines lines, numbered or not
ProgLines ==
    {<<"1","0","0"," ","B","=","5","4","2","7","2">>, <<"2","0"," ","P","O","K","E"," ","B","+","4",",","9">>, <<"3"," ","p","o","k","e"," ","s","1",",","1"," ",":"," ","L","E","T"," ","s","1"," ","="," ","5","4","2","7","2">>, <<"S","1","=","5","4","2","7","2">>,
     <<"R","E","M"," ","x"," ">>, <<" ","0","0","7"," ","P","R","I","N","T"," ","\"","H","I","\"",":","P","O","K","E"," ","5","4","2","7","2",",","0">>, <<"0"," ","P","O","K","E"," ","S","1","+","1",",","2",":","B"," ","="," ","5","4","2","7","2"," ",":","N","E","X","T">>,
     <<" "," ">>, <<"R","E","A","D","Y",".">>, <<"3","0"," ","P","O","K","E"," ","B",",","C","H","R","$","(","5",")">>}

ProgArgs ==
    {[DefaultArgs EXCEPT !.reg = r, !.dat = r + 1, !.warn_out_of_range = w] :
        r \in {DEFAULT_REG, 0}, w \in BOOLEAN}

Init == InitOn(SeqsUpTo(ProgLines, MaxLines), ProgArgs)

Spec == Init /\ [][Next]_vars

(***************************************************************************)
(* Reading the output back: the vocabulary of the properties below         *)
(***************************************************************************)
\* line i of the input is numbered: optional whitespace, then a digit
IsNumberedRaw(raw) == IsDigit(At(raw, SkipSp(raw, 1)))

NumberedIdx == {i \in 1..Len(parsed_lines) : parsed_lines[i][1] # <<>>}

\* the statements of input line i, as the splitter sees its body
InStmts(i) == split_colon_statements(parsed_lines[i][2])

\* the body of the output line written for input line i (output line i + 1,
\* after the header): the text after the line number and one space
OutBody(i) ==
    LET num == IntToStr(parsed_lines[i][1][1])
        o   == output_lines[i + 1]
    IN  IF Len(o) <= Len(num) + 1 THEN <<>> ELSE From(o, Len(num) + 2)

\* the output body of line i split on ':'
Pieces(i) == split_colon_statements(OutBody(i))

\* ps[p], or None outside ps
PieceAt(ps, p) == IF p \in 1..Len(ps) THEN ps[p] ELSE None

FirstComma(s) ==
    IF \E i \in 1..Len(s) : s[i] = ","
    THEN CHOOSE i \in 1..Len(s) : s[i] = "," /\ \A j \in 1..(i-1) : s[j] # ","
    ELSE 0

\* the operands of a statement POKE <addr>,<val>: the address without its
\* whitespace, the value trimmed at its ends
PokeAddr(s) == RemoveSpaces(SubSeq(s, 6, FirstComma(s) - 1))

PokeVal(s) == strip(From(s, FirstComma(s) + 1))

\* s is POKE <addr>,<val> with both operands present
IsPoke(s) ==
    /\ HasAt(s, 1, <<"P","O","K","E">>) /\ IsSpace(At(s, 5))
    /\ FirstComma(s) > 6
    /\ PokeAddr(s) # <<>> /\ PokeVal(s) # <<>>

\* the variable name that starts address a (one letter, or a letter and one
\* more letter or digit), when a is <name> or <name>+...; else <<>>
NameOf(a) ==
    IF IsLetter(At(a, 1)) /\ (Len(a) = 1 \/ At(a, 2) = "+") THEN SubSeq(a, 1, 1)
    ELSE IF IsLetter(At(a, 1)) /\ IsAlnum(At(a, 2)) /\ (Len(a) = 2 \/ At(a, 3) = "+")
         THEN SubSeq(a, 1, 2)
    ELSE <<>>

\* address a is <name> or <name>+<rest> with a rest
IsNameForm(a) == NameOf(a) # <<>> /\ Len(a) # Len(NameOf(a)) + 1

\* the offset of a name-form address: 0, or the rest
NameOffset(a) == IF Len(a) = Len(NameOf(a)) THEN <<"0">> ELSE From(a, Len(NameOf(a)) + 2)

\* address a is 54272 or 54272+<rest>
IsLiteralForm(a) == a = <<"5","4","2","7","2">> \/ startswith(a, <<"5","4","2","7","2","+">>)

LiteralOffset(a) == IF a = <<"5","4","2","7","2">> THEN <<"0">> ELSE From(a, 7)

\* statement s is a sound-chip POKE, given the aliases
IsSid(s, aliases) ==
    /\ IsPoke(s)
    /\ \/ IsLiteralForm(PokeAddr(s))
       \/ IsNameForm(PokeAddr(s)) /\ upper(NameOf(PokeAddr(s))) \in aliases

SidOffset(s) ==
    IF IsLiteralForm(PokeAddr(s)) THEN LiteralOffset(PokeAddr(s))
    ELSE NameOffset(PokeAddr(s))

\* the offset is a base-10 integer outside 0..24
OutOfRange(off) == int10(off) # <<>> /\ (int10(off)[1] < 0 \/ int10(off)[1] > 24)

\* the pieces the out-of-range annotation splits into
AnnotPieces(off) == <<<<"R","E","M"," ","W","A","R","N">>, <<"S","I","D"," ","r","e","g"," ">> \o IntToStr(int10(off)[1]) \o <<" ","o","u","t"," ","o","f"," ","0","-","2","4">>>>

\* how many pieces of the output body one statement accounts for
PieceCount(s, aliases, warn) ==
    IF IsSid(s, aliases)
    THEN (IF warn /\ OutOfRange(SidOffset(s)) THEN 4 ELSE 2)
    ELSE 1

RECURSIVE PiecesBefore(_, _, _, _)
\* the number of pieces the first k statements account for
PiecesBefore(stmts, k, aliases, warn) ==
    IF k = 0 THEN 0
    ELSE PiecesBefore(stmts, k - 1, aliases, warn) + PieceCount(stmts[k], aliases, warn)

\* where the first piece of statement k of line i stands in the output body
Pos(i, k) == PiecesBefore(InStmts(i), k - 1, base_vars, args.warn_out_of_range) + 1

\* the number of pieces of the output body of line i: splitting drops one
\* trailing empty statement
ExpectedLen(i) ==
    LET stmts == InStmts(i)
        n     == PiecesBefore(stmts, Len(stmts), base_vars, args.warn_out_of_range)
    IN  IF stmts # <<>> /\ stmts[Len(stmts)] = <<>> THEN n - 1 ELSE n

\* statement k of line i stands in the output as the pair OUT REG / OUT DAT
IsOutPair(i, k) ==
    LET s == InStmts(i)[k]
    IN  /\ PieceAt(Pieces(i), Pos(i, k)) = <<"O","U","T"," ","R","E","G",",">> \o SidOffset(s)
        /\ PieceAt(Pieces(i), Pos(i, k) + 1) = <<"O","U","T"," ","D","A","T",",">> \o PokeVal(s)

(***************************************************************************)
(* C1                                                                      *)
(***************************************************************************)
\* C1: with range-warning disabled, every statement POKE <addr>,<val> whose
\* whitespace-stripped address is 54272, 54272+<rest>, <alias> or
\* <alias>+<rest> is replaced in its line by exactly two adjacent statements,
\* OUT REG,<offset> and then OUT DAT,<val>, the offset being <rest> or 0 and
\* the value trimmed only at its ends; the line gets no other extra statement.
C1_PokeBecomesOutPair ==
    (pc = "done" /\ ~args.warn_out_of_range) =>
        \A i \in NumberedIdx :
            /\ Len(Pieces(i)) = ExpectedLen(i)
            /\ \A k \in 1..Len(InStmts(i)) :
                  IsSid(InStmts(i)[k], base_vars) => IsOutPair(i, k)

\* POKE 54272+5,10 has become OUT REG,5:OUT DAT,10
C1_Witness ==
    /\ pc = "done" /\ ~args.warn_out_of_range
    /\ lines = <<<<"1","0"," ","P","O","K","E"," ","5","4","2","7","2","+","5",",","1","0">>>>
    /\ output_lines[2] = <<"1","0"," ","O","U","T"," ","R","E","G",",","5",":","O","U","T"," ","D","A","T",",","1","0">>

(***************************************************************************)
(* C5                                                                      *)
(***************************************************************************)
\* C5: a rewritten POKE's data-output statement carries the out-of-range
\* annotation, naming the offset value, if and only if range-warning is
\* enabled and the offset expression parses as a base-10 integer that is < 0
\* or > 24; offsets 0 through 24, every offset that is no integer literal, and
\* every POKE when the flag is off get no annotation.
C5_AnnotationIffOutOfRange ==
    pc = "done" =>
        \A i \in NumberedIdx : \A k \in 1..Len(InStmts(i)) :
            LET s        == InStmts(i)[k]
                off      == SidOffset(s)
                carries  == PieceAt(Pieces(i), Pos(i, k) + 2) = <<"R","E","M"," ","W","A","R","N">>
                expected == args.warn_out_of_range /\ OutOfRange(off)
            IN  IsSid(s, base_vars) =>
                    /\ IsOutPair(i, k)
                    /\ carries <=> expected
                    /\ expected =>
                         PieceAt(Pieces(i), Pos(i, k) + 3) = AnnotPieces(off)[2]

\* with range-warning on, POKE 54272+25,4 carries the annotation naming 25
C5_Witness ==
    /\ pc = "done" /\ args.warn_out_of_range
    /\ lines = <<<<"1","0"," ","P","O","K","E"," ","5","4","2","7","2","+","2","5",",","4">>>>
    /\ output_lines[2] = <<"1","0"," ","O","U","T"," ","R","E","G",",","2","5",":","O","U","T"," ","D","A","T",",","4"," ",":"," ","R","E","M"," ","W","A","R","N",":"," ","S","I","D"," ","r","e","g"," ","2","5"," ","o","u","t"," ","o","f"," ","0","-","2","4">>

(***************************************************************************)
(* C9                                                                      *)
(***************************************************************************)
\* s holds a CHR$( call
HasChrCall(s) == \E j \in 1..Len(s) : HasAt(s, j, <<"C","H","R","$","(">>)

\* C9, as stated: a POKE statement whose address matches none of the four
\* sound-chip forms is left completely untouched in the output, under every
\* flag setting and every screen profile, also when its text contains a mapped
\* CHR$(<n>) call and the profile is ansi.
C9_OtherPokeUntouched ==
    pc = "done" =>
        \A i \in NumberedIdx : \A k \in 1..Len(InStmts(i)) :
            LET s == InStmts(i)[k]
            IN  (IsPoke(s) /\ ~IsSid(s, base_vars)) =>
                    PieceAt(Pieces(i), Pos(i, k)) = s

\* C9, amended: such a POKE statement is left untouched under every flag
\* setting when the screen profile is none or its text holds no CHR$ call;
\* under the ansi profile it goes through the screen-control substitution like
\* any other statement, which replaces its mapped CHR$(<n>) calls and leaves
\* the text before the first call as it was.
C9_OtherPokeUntouchedButChr ==
    pc = "done" =>
        \A i \in NumberedIdx : \A k \in 1..Len(InStmts(i)) :
            LET s     == InStmts(i)[k]
                piece == PieceAt(Pieces(i), Pos(i, k))
                first == CHOOSE j \in 1..Len(s) :
                            HasAt(s, j, <<"C","H","R","$","(">>) /\ \A h \in 1..(j-1) : ~HasAt(s, h, <<"C","H","R","$","(">>)
            IN  (IsPoke(s) /\ ~IsSid(s, base_vars)) =>
                    /\ (args.screen_profile = "none" \/ ~HasChrCall(s)) => piece = s
                    /\ (args.screen_profile = "ansi" /\ HasChrCall(s)) =>
                          /\ piece # None
                          /\ startswith(piece, SubSeq(s, 1, first - 1))
                          /\ piece = map_chr_calls_to_profile(s, "ansi")

\* under the ansi profile the mapped CHR$(147) of a POKE to screen memory is
\* replaced, and the text before it stands as it was
C9_Witness ==
    /\ pc = "done" /\ args.screen_profile = "ansi"
    /\ lines = <<<<"1","0"," ","P","O","K","E"," ","1","0","2","4",",","C","H","R","$","(","1","4","7",")">>>>
    /\ output_lines[2] = <<"1","0"," ","P","O","K","E"," ","1","0","2","4",",","\"","ESC","[","2","J","ESC","[","H","\"">>

(***************************************************************************)
(* C10                                                                     *)
(***************************************************************************)
\* s starts with the keyword kw and then ends or goes on with a space
StartsWithWord(s, kw) == HasAt(s, 1, kw) /\ (Len(s) = Len(kw) \/ IsSpace(At(s, Len(kw) + 1)))

\* a statement none of the rewrites is about
Unrecognised(s) ==
    /\ ~StartsWithWord(s, <<"P","O","K","E">>) /\ ~StartsWithWord(s, <<"F","O","R">>)
    /\ ~StartsWithWord(s, <<"G","E","T">>) /\ ~StartsWithWord(s, <<"L","E","T">>)
    /\ ~HasChrCall(s)
    /\ \A j \in 1..Len(s) : s[j] # "="

\* the sound-chip POKEs among the statements of line i
SidCount(i) == Cardinality({k \in 1..Len(InStmts(i)) : IsSid(InStmts(i)[k], base_vars)})

\* C10, as stated: for every numbered line and every flag setting, range-
\* warning included, the output body split on ':' has exactly one statement
\* per input statement, except exactly two for each rewritten sound-chip POKE,
\* in the original order; no statement the tool does not recognize is dropped,
\* reordered or altered, and no extra statement is introduced.
C10_OnePieceEachTwoPerPoke ==
    pc = "done" =>
        \A i \in NumberedIdx :
            /\ Len(Pieces(i)) = Len(InStmts(i)) + SidCount(i)
            /\ \A k \in 1..Len(InStmts(i)) :
                  Unrecognised(InStmts(i)[k]) =>
                      \E p \in k..(2 * k - 1) : PieceAt(Pieces(i), p) = InStmts(i)[k]

\* C10, amended: for every numbered line and every flag setting the output
\* body split on ':' holds the per-statement results in the original order:
\* one statement per input statement, two for each rewritten sound-chip POKE,
\* and two more pieces (REM WARN, SID reg <n> out of 0-24) after the data
\* statement of each POKE that range-warning annotates; one empty statement at
\* the end of the line is not written.  Every other statement the tool does
\* not recognize stands untouched at its place.
C10_PiecesInOrder ==
    pc = "done" =>
        \A i \in NumberedIdx :
            /\ Len(Pieces(i)) = ExpectedLen(i)
            /\ \A k \in 1..Len(InStmts(i)) :
                  LET s == InStmts(i)[k]
                  IN  /\ (Unrecognised(s) /\ Pos(i, k) <= ExpectedLen(i)) =>
                            PieceAt(Pieces(i), Pos(i, k)) = s
                      /\ IsSid(s, base_vars) =>
                            /\ IsOutPair(i, k)
                            /\ (args.warn_out_of_range /\ OutOfRange(SidOffset(s))) =>
                                  /\ PieceAt(Pieces(i), Pos(i, k) + 2) = AnnotPieces(SidOffset(s))[1]
                                  /\ PieceAt(Pieces(i), Pos(i, k) + 3) = AnnotPieces(SidOffset(s))[2]

\* an annotated POKE followed by a statement the tool does not recognize: five
\* pieces for two statements, the last one untouched
C10_Witness ==
    /\ pc = "done" /\ args.warn_out_of_range
    /\ lines = <<<<"1","0"," ","P","O","K","E"," ","5","4","2","7","2","+","2","5",",","4",":","N","E","X","T"," ","T">>>>
    /\ Len(Pieces(1)) = 5
    /\ Pieces(1)[5] = <<"N","E","X","T"," ","T">>

(***************************************************************************)
(* C7                                                                      *)
(***************************************************************************)
\* the first index at which p stands in s, as written; 0 if nowhere
FirstIdx(s, p) ==
    IF \E j \in 1..Len(s) : startswith(From(s, j), p)
    THEN CHOOSE j \in 1..Len(s) :
            startswith(From(s, j), p) /\ \A h \in 1..(j-1) : ~startswith(From(s, h), p)
    ELSE 0

\* the parts of a statement FOR <var>=<start> TO <bound...>
ForVar(s) == SubSeq(s, 5, FirstIdx(s, <<"=">>) - 1)

ForStart(s) == SubSeq(s, FirstIdx(s, <<"=">>) + 1, FirstIdx(s, <<" ","T","O"," ">>) - 1)

ForBound(s) == From(s, FirstIdx(s, <<" ","T","O"," ">>) + 4)

AllDigits(t) == t # <<>> /\ \A j \in 1..Len(t) : IsDigit(t[j])

\* s is FOR <var>=<start> TO <bound...>, the variable a name of any length
IsFor(s) ==
    /\ startswith(s, <<"F","O","R"," ">>)
    /\ FirstIdx(s, <<"=">>) > 5
    /\ FirstIdx(s, <<" ","T","O"," ">>) > FirstIdx(s, <<"=">>) + 1
    /\ IsLetter(At(ForVar(s), 1))
    /\ \A j \in 1..Len(ForVar(s)) : IsAlnum(ForVar(s)[j])
    /\ ForBound(s) # <<>>

\* s is of the exact form FOR <var>=1 TO <n>, n an integer literal, no STEP
IsSimpleFor(s) == IsFor(s) /\ ForStart(s) = <<"1">> /\ AllDigits(ForBound(s))

\* C7, as stated: whenever a scale factor f >= 1 is configured, a statement of
\* the exact form FOR <var>=1 TO <n> with <var> (case-insensitive) in the
\* configured variable set is replaced by FOR <var>=1 TO <n*f>; the same
\* statement with <var> not in the set, a FOR with another start value, a STEP
\* clause or a non-literal bound, and every FOR when the factor is 0 or
\* absent, is left unchanged.
C7_ForScaledForEveryName ==
    pc = "done" =>
        \A i \in NumberedIdx : \A k \in 1..Len(InStmts(i)) :
            LET s     == InStmts(i)[k]
                piece == PieceAt(Pieces(i), k)
                f     == args.scale_for
                vs    == parse_scale_for_vars(args.scale_for_vars)
            IN  IsFor(s) =>
                    IF f >= 1 /\ IsSimpleFor(s) /\ upper(ForVar(s)) \in vs
                    THEN piece = <<"F","O","R"," ">> \o ForVar(s) \o <<"=","1"," ","T","O"," ">>
                                    \o NatToStr(DigitsToNat(ForBound(s)) * f)
                    ELSE piece = s

(***************************************************************************)
(* C8                                                                      *)
(***************************************************************************)
\* the parsed body of input line i
InBody(i) == parsed_lines[i][2]

\* only whitespace stands between the indices j and c of b
BlankBetween(b, j, c) ==
    \A h \in 1..Len(b) : ((j < h /\ h < c) \/ (c < h /\ h < j)) => IsSpace(b[h])

\* the whitespace at j is part of a run of whitespace next to a ':' or at an
\* end of b
SpaceByColon(b, j) ==
    /\ IsSpace(b[j])
    /\ \/ \E c \in 1..Len(b) : b[c] = ":" /\ BlankBetween(b, j, c)
       \/ BlankBetween(b, j, 0)
       \/ BlankBetween(b, j, Len(b) + 1)

\* the ':' at j is the last one of b and only whitespace follows it
BlankAfterColon(b, j) == b[j] = ":" /\ BlankBetween(b, j, Len(b) + 1)

\* b without the whitespace around its colons and without a last ':' that
\* nothing follows
Norm(b) ==
    Flatten([j \in 1..Len(b) |->
                IF SpaceByColon(b, j) \/ BlankAfterColon(b, j) THEN <<>> ELSE <<b[j]>>])

\* the no-op profile: screen profile none, no scaling, no key-read mapping
NoOpProfile ==
    args.screen_profile = "none" /\ args.scale_for <= 0 /\ ~args.map_get_to_inkey

\* C8, as stated: with the screen profile none, scaling and key-read mapping
\* disabled, and a body with no sound-chip POKE and no base-address
\* assignment, splitting the body on ':' and rejoining the statements with
\* ':' reproduces the original body exactly, for every body.
C8_RoundTripExact ==
    (pc = "done" /\ NoOpProfile) =>
        \A i \in NumberedIdx :
            /\ join(<<":">>, InStmts(i)) = InBody(i)
            /\ OutBody(i) = InBody(i)

\* C8, amended: under the same conditions, splitting and rejoining reproduces
\* the body exactly when no ':' of it has whitespace next to it and it does
\* not end with ':'; for every body the result is the body with the
\* whitespace around each ':' removed and, if nothing but whitespace follows
\* the last ':', without that ':'.
C8_RoundTripUpToColonSpacing ==
    (pc = "done" /\ NoOpProfile) =>
        \A i \in NumberedIdx :
            LET b     == InBody(i)
                clean == /\ \A j \in 1..Len(b) : ~SpaceByColon(b, j)
                         /\ At(b, Len(b)) # ":"
            IN  /\ join(<<":">>, InStmts(i)) = Norm(b)
                /\ OutBody(i) = Norm(b)
                /\ clean => OutBody(i) = b

\* the space before the colon of "A :A" is gone from the output
C8_Witness ==
    /\ pc = "done" /\ NoOpProfile
    /\ lines = <<<<"1","0"," ","A"," ",":","A">>>>
    /\ output_lines[2] = <<"1","0"," ","A",":","A">>

(***************************************************************************)
(* C2                                                                      *)
(***************************************************************************)
\* the index of the first '=' of s; 0 if it has none
FirstEq(s) == FirstIdx(s, <<"=">>)

\* t is a variable name of one letter, or a letter and one letter or digit
IsShortName(t) ==
    /\ Len(t) \in {1, 2}
    /\ IsLetter(At(t, 1))
    /\ Len(t) = 2 => IsAlnum(t[2])

\* the left-hand side of an assignment without its LET
DropLet(lhs) ==
    IF HasAt(lhs, 1, <<"L","E","T">>) /\ IsSpace(At(lhs, 4)) THEN strip(From(lhs, 5)) ELSE lhs

\* the name a statement [LET] <name> = ... assigns to
BaseAssignName(s) == DropLet(strip(SubSeq(s, 1, FirstEq(s) - 1)))

\* s is [LET] <name> = 54272
IsBaseAssign(s) ==
    /\ FirstEq(s) > 1
    /\ IsShortName(BaseAssignName(s))
    /\ strip(From(s, FirstEq(s) + 1)) = <<"5","4","2","7","2">>

\* some numbered line of the program assigns 54272 to the name
AssignedSomewhere(name) ==
    \E j \in NumberedIdx : \E h \in 1..Len(InStmts(j)) :
        /\ IsBaseAssign(InStmts(j)[h])
        /\ upper(BaseAssignName(InStmts(j)[h])) = upper(name)

\* C2: the Alias Set is complete before any line is rewritten: for every
\* program and every position of the lines, a POKE whose address is <name> or
\* <name>+<rest> is rewritten to the OUT pair if and only if some numbered line
\* anywhere in the program, before or after the POKE's line, contains a
\* statement [LET] <name>=54272.
C2_AliasAnywhereInProgram ==
    pc = "done" =>
        \A i \in NumberedIdx : \A k \in 1..Len(InStmts(i)) :
            LET s == InStmts(i)[k]
            IN  (IsPoke(s) /\ IsNameForm(PokeAddr(s))) =>
                    /\ IsOutPair(i, k) <=> AssignedSomewhere(NameOf(PokeAddr(s)))
                    /\ ~AssignedSomewhere(NameOf(PokeAddr(s))) =>
                          startswith(PieceAt(Pieces(i), Pos(i, k)),
                                     SubSeq(s, 1, FirstComma(s)))

\* a POKE through B on the line before the one that assigns B is rewritten
C2_Witness ==
    /\ pc = "done"
    /\ lines = <<<<"2","0"," ","P","O","K","E"," ","B","+","4",",","9">>, <<"1","0","0"," ","B","=","5","4","2","7","2">>>>
    /\ output_lines[2] = <<"2","0"," ","O","U","T"," ","R","E","G",",","4",":","O","U","T"," ","D","A","T",",","9">>
    /\ output_lines[3] = <<"1","0","0"," ","B","=","0">>

(***************************************************************************)
(* C3                                                                      *)
(***************************************************************************)
\* C3, as stated: every non-numbered line appears in the output unchanged,
\* character for character, and the non-numbered lines keep their original
\* relative order among the output lines.
C3_NonNumberedVerbatim ==
    pc = "done" =>
        /\ Len(output_lines) = Len(lines) + 1
        /\ \A i \in 1..Len(lines) :
              ~IsNumberedRaw(lines[i]) => output_lines[i + 1] = lines[i]

(***************************************************************************)
(* C4                                                                      *)
(***************************************************************************)
\* the number written at the start of a numbered line
RawNumber(raw) ==
    DigitsToNat(SubSeq(raw, SkipSp(raw, 1), SkipDigits(raw, SkipSp(raw, 1)) - 1))

\* the header the program calls for
ExpectedHeader ==
    LET numbered == {i \in 1..Len(lines) : IsNumberedRaw(lines[i])}
        first    == CHOOSE i \in numbered : \A j \in numbered : i <= j
        n        == RawNumber(lines[first])
        number   == IF numbered = {} THEN 5 ELSE IF n - 5 > 0 THEN n - 5 ELSE 0
    IN  NatToStr(number) \o <<" ","B","=","0",":","R","E","G","=">> \o NatToStr(args.reg)
            \o <<":","D","A","T","=">> \o NatToStr(args.dat)

\* C4: for every input program the first output line is the synthesized
\* header: its number is max(0, n - 5) where n is the number of the first
\* numbered line of the input, and the fallback 5 when no input line is
\* numbered; its body is B=0:REG=<reg>:DAT=<dat>; no original line is ever
\* emitted before it.
C4_HeaderFirst ==
    /\ output_lines # <<>> => output_lines[1] = ExpectedHeader
    /\ pc = "done" =>
          /\ Len(output_lines) = Len(lines) + 1
          /\ startswith(outfile, ExpectedHeader \o <<"\n">>)

\* a program whose first numbered line is 3: the header number is 0, not -2
C4_Witness ==
    /\ pc = "done"
    /\ lines = <<<<"R","E","A","D","Y",".">>, <<"3"," ","p","o","k","e"," ","s","1",",","1"," ",":"," ","L","E","T"," ","s","1"," ","="," ","5","4","2","7","2">>>>
    /\ output_lines[1] = <<"0"," ","B","=","0",":","R","E","G","=","2","1","2",":","D","A","T","=","2","1","3">>

(***************************************************************************)
(* C6                                                                      *)
(***************************************************************************)
\* the statements of the rewritten body of line i before the rewrite of its
\* base-address assignments
BeforePostStep(i) ==
    split_colon_statements(
        process_line_body(InBody(i), base_vars, args.warn_out_of_range,
                          IF args.scale_for > 0 THEN <<args.scale_for>> ELSE <<>>,
                          parse_scale_for_vars(args.scale_for_vars),
                          args.screen_profile, args.map_get_to_inkey))

\* C6: after conversion, every statement of a numbered line that had the form
\* [LET] <name> = 54272 has been rewritten to <NAME>=0: no statement of any
\* numbered output line still assigns the literal 54272 to such a variable,
\* and the other statements of that line are the same as if the rewrite of the
\* assignments had not run.
C6_BaseAssignsBecomeZero ==
    pc = "done" =>
        \A i \in NumberedIdx :
            /\ \A k \in 1..Len(InStmts(i)) :
                  IsBaseAssign(InStmts(i)[k]) =>
                      PieceAt(Pieces(i), Pos(i, k)) =
                          upper(BaseAssignName(InStmts(i)[k])) \o <<"=","0">>
            /\ \A p \in 1..Len(Pieces(i)) : ~IsBaseAssign(Pieces(i)[p])
            /\ Len(Pieces(i)) = Len(BeforePostStep(i))
            /\ \A p \in 1..Len(Pieces(i)) :
                  ~IsBaseAssign(BeforePostStep(i)[p]) =>
                      Pieces(i)[p] = BeforePostStep(i)[p]

\* a lower-case assignment with LET behind a POKE: the POKE pair stands, the
\* assignment is S1=0
C6_Witness ==
    /\ pc = "done"
    /\ lines = <<<<"3"," ","p","o","k","e"," ","s","1",",","1"," ",":"," ","L","E","T"," ","s","1"," ","="," ","5","4","2","7","2">>>>
    /\ output_lines[2] = <<"3"," ","O","U","T"," ","R","E","G",",","0",":","O","U","T"," ","D","A","T",",","1",":","S","1","=","0">>

=============================================================================
